---- MODULE Spec2Model ----
(***************************************************************************)
(* State-machine model of the infallible-sonyflake id generator            *)
(* (sonyflake/src/lib.rs): the fail-fast SonyFlake and the self-healing     *)
(* InfallibleSonyFlake, their shared Inner state behind one Mutex, cloned   *)
(* handles, the wall clock, the id codec (to_id / decompose) and the build  *)
(* of an allocator from a Settings.                                        *)
(*                                                                         *)
(* Bit widths are scaled down (the source uses 39/8/16 bits in a 64-bit     *)
(* word); every field keeps its own width and the word keeps one spare top  *)
(* bit, so shifts, masks and wrap-arounds behave as in the source.          *)
(***************************************************************************)
EXTENDS Integers, FiniteSets, Sequences, TLC

\* ------------------------------------------------------------------ bounds
\* bit length of time (39 in the source)
BIT_LEN_TIME == 2
\* bit length of sequence number (8 in the source)
BIT_LEN_SEQUENCE == 2
\* bits below the top bit of an id (63 in the source)
ID_BITS == 5
\* number of handles (the first one plus its clones)
NumHandles == 2
\* largest start time (in time units) a Settings may carry
MaxStart == 0
\* how far the clock may run past the time limit
ClockSlack == 1
\* time units the wall clock may be set back, in total
MaxSkew == 1
\* clock instants per time unit (10_000_000 ns in the source)
FLAKE_TIME_UNIT == 2

\* --------------------------------------------------------- derived constants
BIT_LEN_MACHINE_ID == ID_BITS - BIT_LEN_TIME - BIT_LEN_SEQUENCE
\* width of u64 in the scaled model
WORD_BITS == ID_BITS + 1
Word == 2 ^ WORD_BITS
\* 1 << BIT_LEN_TIME
TimeLimit == 2 ^ BIT_LEN_TIME
MaxNow == MaxStart + TimeLimit + ClockSlack
MaxElapsed == MaxNow + 1
Handles == 1 .. NumHandles
MachineIds == 0 .. (2 ^ BIT_LEN_MACHINE_ID - 1)
Ids == 0 .. (Word - 1)

\* results of next_id that are not ids
\* Error::TimeOverflow
TimeOverflow == -1
\* no call has completed yet / nothing remembered: neither an id nor an error
None == TimeOverflow - 1

\* the clock instants a Settings and the clock at the build may carry
BuildTimes == 0 .. (FLAKE_TIME_UNIT * (MaxStart + 2) - 1)
\* private IPv4 addresses: one bit more than a machine id holds
Addresses == 0 .. (2 ^ (BIT_LEN_MACHINE_ID + 1) - 1)
\* the error a MachineID implementation may return
ProviderErrors == 1 .. 2

\* -------------------------------------------------------- bit arithmetic
RECURSIVE BitAnd(_, _)
BitAnd(x, y) ==
    IF x = 0 \/ y = 0 THEN 0
    ELSE (x % 2) * (y % 2) + 2 * BitAnd(x \div 2, y \div 2)

RECURSIVE BitOr(_, _)
BitOr(x, y) ==
    IF x = 0 THEN y
    ELSE IF y = 0 THEN x
    ELSE (IF x % 2 = 1 \/ y % 2 = 1 THEN 1 ELSE 0) + 2 * BitOr(x \div 2, y \div 2)

\* u64 << n (bits shifted past the word are lost)
Shl(x, n) == (x * 2 ^ n) % Word
\* u64 >> n
Shr(x, n) == x \div (2 ^ n)
\* i64 as u64
AsU64(x) == x % Word

\* ------------------------------------------------------------------ codec
to_id_wrong_shift(elapsed_time, seq, machine_id) ==
    BitOr(BitOr(Shl(AsU64(elapsed_time), BIT_LEN_SEQUENCE),
                Shl(seq, BIT_LEN_MACHINE_ID)),
          machine_id)

to_id(elapsed_time, seq, machine_id) ==
    BitOr(BitOr(Shl(AsU64(elapsed_time), BIT_LEN_SEQUENCE + BIT_LEN_MACHINE_ID),
                Shl(seq, BIT_LEN_MACHINE_ID)),
          machine_id)

decompose_mask_time(id) ==
    LET mask_seq == Shl(2 ^ BIT_LEN_SEQUENCE - 1, BIT_LEN_MACHINE_ID)
        mask_machine_id == 2 ^ BIT_LEN_MACHINE_ID - 1
    IN  [id |-> id,
         msb |-> Shr(id, ID_BITS),
         time |-> Shr(id, BIT_LEN_SEQUENCE + BIT_LEN_MACHINE_ID) % TimeLimit,
         sequence |-> Shr(BitAnd(id, mask_seq), BIT_LEN_MACHINE_ID),
         machine_id |-> BitAnd(id, mask_machine_id)]

decompose_wrong_mask(id) ==
    LET mask_seq == Shl(2 ^ (BIT_LEN_SEQUENCE - 1), BIT_LEN_MACHINE_ID)
        mask_machine_id == 2 ^ BIT_LEN_MACHINE_ID - 1
    IN  [id |-> id,
         msb |-> Shr(id, ID_BITS),
         time |-> Shr(id, BIT_LEN_SEQUENCE + BIT_LEN_MACHINE_ID),
         sequence |-> Shr(BitAnd(id, mask_seq), BIT_LEN_MACHINE_ID),
         machine_id |-> BitAnd(id, mask_machine_id)]

decompose(id) ==
    LET mask_seq == Shl(2 ^ BIT_LEN_SEQUENCE - 1, BIT_LEN_MACHINE_ID)
        mask_machine_id == 2 ^ BIT_LEN_MACHINE_ID - 1
    IN  [id |-> id,
         msb |-> Shr(id, ID_BITS),
         time |-> Shr(id, BIT_LEN_SEQUENCE + BIT_LEN_MACHINE_ID),
         sequence |-> Shr(BitAnd(id, mask_seq), BIT_LEN_MACHINE_ID),
         machine_id |-> BitAnd(id, mask_machine_id)]

\* ----------------------------------------------------------------- Settings
Ok(v) == [ok |-> TRUE, value |-> v]
Err(kind, payload) == [ok |-> FALSE, error |-> [kind |-> kind, payload |-> payload]]

\* time.timestamp_nanos() / FLAKE_TIME_UNIT
to_sonyflake_time(time) == time \div FLAKE_TIME_UNIT

\* the instant the time axis of the model starts at
default_start_time == 0

\* Settings::get_start_time; clock is what Utc::now() returns
get_start_time_ignore_clock(st, clock) ==
    IF st.start_time # None
    THEN Ok(to_sonyflake_time(st.start_time))
    ELSE Ok(to_sonyflake_time(default_start_time))

get_start_time(st, clock) ==
    IF st.start_time # None
    THEN IF st.start_time > clock
         THEN Err("StartTimeAheadOfCurrentTime", st.start_time)
         ELSE Ok(to_sonyflake_time(st.start_time))
    ELSE Ok(to_sonyflake_time(default_start_time))

\* private_ipv4 / lower_16_bit_private_ip; ip is the address found, or None
lower_16_bit_private_ip(ip) ==
    IF ip = None
    THEN Err("NoPrivateIPv4Address", None)
    ELSE Ok(ip % (2 ^ BIT_LEN_MACHINE_ID))

\* MachineIDChecker::check_machine_id of a checker that accepts a set of ids
check_machine_id(checker, id) == id \in checker.accepts

\* Settings::get_and_check_machine_id: the result and the calls it made to
\* the MachineID, the MachineIDChecker and the interfaces, in order
get_and_check_machine_id_skip_checker(st, ip) ==
    IF st.machine_id.kind # "none"
    THEN IF st.machine_id.kind = "ok"
         THEN [result |-> Ok(st.machine_id.value), log |-> <<<<"machine_id">>>>]
         ELSE [result |-> Err("MachineIdFailed", st.machine_id.value),
               log |-> <<<<"machine_id">>>>]
    ELSE LET r == lower_16_bit_private_ip(ip)
         IN  [result |-> r, log |-> <<<<"lower_16_bit_private_ip">>>>]

get_and_check_machine_id_fallback(st, ip) ==
    IF st.machine_id.kind # "none"
    THEN IF st.machine_id.kind = "ok"
         THEN LET id == st.machine_id.value
              IN  IF st.check_machine_id.kind # "none"
                  THEN IF ~check_machine_id(st.check_machine_id, id)
                       THEN [result |-> Err("InvalidMachineID", id),
                             log |-> <<<<"machine_id">>, <<"check_machine_id", id>>>>]
                       ELSE [result |-> Ok(id),
                             log |-> <<<<"machine_id">>, <<"check_machine_id", id>>>>]
                  ELSE [result |-> Ok(id), log |-> <<<<"machine_id">>>>]
         ELSE LET r == lower_16_bit_private_ip(ip)
              IN  [result |-> r,
                   log |-> <<<<"machine_id">>, <<"lower_16_bit_private_ip">>>>]
    ELSE LET r == lower_16_bit_private_ip(ip)
         IN  IF r.ok
             THEN IF st.check_machine_id.kind # "none"
                  THEN IF ~check_machine_id(st.check_machine_id, r.value)
                       THEN [result |-> Err("InvalidMachineID", r.value),
                             log |-> <<<<"lower_16_bit_private_ip">>,
                                       <<"check_machine_id", r.value>>>>]
                       ELSE [result |-> r,
                             log |-> <<<<"lower_16_bit_private_ip">>,
                                       <<"check_machine_id", r.value>>>>]
                  ELSE [result |-> r, log |-> <<<<"lower_16_bit_private_ip">>>>]
             ELSE [result |-> r, log |-> <<<<"lower_16_bit_private_ip">>>>]

get_and_check_machine_id(st, ip) ==
    IF st.machine_id.kind # "none"
    THEN IF st.machine_id.kind = "ok"
         THEN LET id == st.machine_id.value
              IN  IF st.check_machine_id.kind # "none"
                  THEN IF ~check_machine_id(st.check_machine_id, id)
                       THEN [result |-> Err("InvalidMachineID", id),
                             log |-> <<<<"machine_id">>, <<"check_machine_id", id>>>>]
                       ELSE [result |-> Ok(id),
                             log |-> <<<<"machine_id">>, <<"check_machine_id", id>>>>]
                  ELSE [result |-> Ok(id), log |-> <<<<"machine_id">>>>]
         ELSE [result |-> Err("MachineIdFailed", st.machine_id.value),
               log |-> <<<<"machine_id">>>>]
    ELSE LET r == lower_16_bit_private_ip(ip)
         IN  IF r.ok
             THEN IF st.check_machine_id.kind # "none"
                  THEN IF ~check_machine_id(st.check_machine_id, r.value)
                       THEN [result |-> Err("InvalidMachineID", r.value),
                             log |-> <<<<"lower_16_bit_private_ip">>,
                                       <<"check_machine_id", r.value>>>>]
                       ELSE [result |-> r,
                             log |-> <<<<"lower_16_bit_private_ip">>,
                                       <<"check_machine_id", r.value>>>>]
                  ELSE [result |-> r, log |-> <<<<"lower_16_bit_private_ip">>>>]
             ELSE [result |-> r, log |-> <<<<"lower_16_bit_private_ip">>>>]

\* SonyFlake::new: the `?` returns the first error; on success the fields of
\* the new SonyFlake and of its Inner
SonyFlake_new_machine_id_first(st, clock, ip) ==
    LET mid == get_and_check_machine_id(st, ip)
    IN  IF ~mid.result.ok
        THEN [result |-> mid.result, log |-> mid.log]
        ELSE LET start == get_start_time(st, clock)
             IN  IF ~start.ok
                 THEN [result |-> start, log |-> mid.log]
                 ELSE [result |-> Ok([start_time |-> start.value,
                                      machine_id |-> mid.result.value,
                                      sequence |-> 2 ^ (BIT_LEN_SEQUENCE - 1),
                                      elapsed_time |-> 0]),
                       log |-> mid.log]

SonyFlake_new(st, clock, ip) ==
    LET start == get_start_time(st, clock)
    IN  IF ~start.ok
        THEN [result |-> start, log |-> <<>>]
        ELSE LET mid == get_and_check_machine_id(st, ip)
             IN  IF ~mid.result.ok
                 THEN [result |-> mid.result, log |-> mid.log]
                 ELSE [result |-> Ok([start_time |-> start.value,
                                      machine_id |-> mid.result.value,
                                      sequence |-> 2 ^ (BIT_LEN_SEQUENCE - 1),
                                      elapsed_time |-> 0]),
                       log |-> mid.log]

\* InfallibleSonyFlake::new
InfallibleSonyFlake_new(st, clock, ip) ==
    LET start == get_start_time(st, clock)
    IN  IF ~start.ok
        THEN [result |-> start, log |-> <<>>]
        ELSE LET mid == get_and_check_machine_id(st, ip)
             IN  IF ~mid.result.ok
                 THEN [result |-> mid.result, log |-> mid.log]
                 ELSE [result |-> Ok([start_time |-> start.value,
                                      machine_id |-> mid.result.value,
                                      sequence |-> 2 ^ (BIT_LEN_SEQUENCE - 1),
                                      elapsed_time |-> 0]),
                       log |-> mid.log]

\* ------------------------------------------------------------------ state
VARIABLES
    now,          \* wall clock, Utc::now() in time units (to_sonyflake_time)
    skew,         \* time units the wall clock has been set back so far
    policy,       \* "SonyFlake" or "InfallibleSonyFlake": the type that was built
    live,         \* handles that exist (the built one and its clones)
    start_time,   \* start_time field of each handle
    machine_id,   \* machine_id field of each handle
    inner,        \* the shared Inner {elapsed_time, sequence} behind the Mutex
    lock,         \* the handles whose thread holds the MutexGuard of inner
    pc,           \* position of each handle's thread inside next_id
    current,      \* local `current` of each running next_id
    sleepLeft,    \* time units a sleeping thread still has to sleep
    ret,          \* result of the last completed call, None before the first
    lastId,       \* the id most recently returned, None before the first
    marked,       \* one earlier returned id, remembered to compare later ids with
    rebased,      \* TRUE once some call refreshed a start time
    preset,       \* elapsed_time written directly by a test, None otherwise
    codec,        \* inputs and outputs of a stand-alone to_id / decompose run
    slot,         \* the calls counted since the clock last changed, see CountCall
    build,        \* a Settings, its surroundings and the outcome of building from it
    twin,         \* the same allocator had it been built with sequence 0, see TwinUpdate
    last          \* the handle whose call completed last, see InfallibleSonyFlakeReturnSeen

vars == <<now, skew, policy, live, start_time, machine_id, inner, lock, pc, current,
          sleepLeft, ret, lastId, marked, rebased, preset, codec, slot,
          build, twin, last>>

\* no allocator is run side by side with the one built
TwinNone == None

\* the handle of the last call is not observed
LastNone == None

\* no Settings is being built from
BuildNone == None

CodecIdle == [phase |-> "idle", time_unit |-> 0, sequence |-> 0, node_id |-> 0,
              id |-> 0, parts |-> decompose(0)]

\* ------------------------------------------------------------ pure steps
\* to_sonyflake_time(Utc::now()) - start_time
current_elapsed_time(start, clock) == clock - start

\* SonyFlake::next_id, the slot/sequence update
SonyFlake_update_no_carry(in, cur) ==
    IF in.elapsed_time < cur
    THEN [elapsed_time |-> cur, sequence |-> 0, overtime |-> 0]
    ELSE LET seq == BitAnd(in.sequence + 1, 2 ^ BIT_LEN_SEQUENCE - 1)
         IN  [elapsed_time |-> in.elapsed_time, sequence |-> seq, overtime |-> 0]

SonyFlake_update_follow_clock(in, cur) ==
    IF in.elapsed_time # cur
    THEN [elapsed_time |-> cur, sequence |-> 0, overtime |-> 0]
    ELSE LET seq == BitAnd(in.sequence + 1, 2 ^ BIT_LEN_SEQUENCE - 1)
         IN  IF seq = 0
             THEN [elapsed_time |-> in.elapsed_time + 1, sequence |-> 0,
                   overtime |-> in.elapsed_time + 1 - cur]
             ELSE [elapsed_time |-> in.elapsed_time, sequence |-> seq,
                   overtime |-> 0]

SonyFlake_update_no_sleep(in, cur) ==
    IF in.elapsed_time < cur
    THEN [elapsed_time |-> cur, sequence |-> 0, overtime |-> 0]
    ELSE LET seq == BitAnd(in.sequence + 1, 2 ^ BIT_LEN_SEQUENCE - 1)
         IN  IF seq = 0
             THEN [elapsed_time |-> in.elapsed_time + 1, sequence |-> 0,
                   overtime |-> 0]
             ELSE [elapsed_time |-> in.elapsed_time, sequence |-> seq,
                   overtime |-> 0]

SonyFlake_update_overtime_first(in, cur) ==
    IF in.elapsed_time < cur
    THEN [elapsed_time |-> cur, sequence |-> 0, overtime |-> 0]
    ELSE LET seq == BitAnd(in.sequence + 1, 2 ^ BIT_LEN_SEQUENCE - 1)
         IN  IF seq = 0
             THEN [elapsed_time |-> in.elapsed_time + 1, sequence |-> 0,
                   overtime |-> in.elapsed_time - cur]
             ELSE [elapsed_time |-> in.elapsed_time, sequence |-> seq,
                   overtime |-> 0]

SonyFlake_update_keep_sequence(in, cur) ==
    IF in.elapsed_time < cur
    THEN [elapsed_time |-> cur, sequence |-> in.sequence, overtime |-> 0]
    ELSE LET seq == BitAnd(in.sequence + 1, 2 ^ BIT_LEN_SEQUENCE - 1)
         IN  IF seq = 0
             THEN [elapsed_time |-> in.elapsed_time + 1, sequence |-> 0,
                   overtime |-> in.elapsed_time + 1 - cur]
             ELSE [elapsed_time |-> in.elapsed_time, sequence |-> seq,
                   overtime |-> 0]

SonyFlake_update(in, cur) ==
    IF in.elapsed_time < cur
    THEN [elapsed_time |-> cur, sequence |-> 0, overtime |-> 0]
    ELSE LET seq == BitAnd(in.sequence + 1, 2 ^ BIT_LEN_SEQUENCE - 1)
         IN  IF seq = 0
             THEN [elapsed_time |-> in.elapsed_time + 1, sequence |-> 0,
                   overtime |-> in.elapsed_time + 1 - cur]
             ELSE [elapsed_time |-> in.elapsed_time, sequence |-> seq,
                   overtime |-> 0]

\* InfallibleSonyFlake::next_id, the slot/sequence update
InfallibleSonyFlake_update(in, cur) ==
    IF in.elapsed_time < cur
    THEN [elapsed_time |-> cur, sequence |-> 0, overtime |-> 0]
    ELSE LET seq == BitAnd(in.sequence + 1, 2 ^ BIT_LEN_SEQUENCE - 1)
         IN  IF seq = 0
             THEN [elapsed_time |-> in.elapsed_time + 1, sequence |-> 0,
                   overtime |-> in.elapsed_time + 1 - cur]
             ELSE [elapsed_time |-> in.elapsed_time, sequence |-> seq,
                   overtime |-> 0]

\* SonyFlake::next_id, the overflow check and the encoding
SonyFlake_finish_late_check(in, mid) ==
    IF in.elapsed_time > TimeLimit
    THEN TimeOverflow
    ELSE to_id(in.elapsed_time, in.sequence, mid)

SonyFlake_finish(in, mid) ==
    IF in.elapsed_time >= TimeLimit
    THEN TimeOverflow
    ELSE to_id(in.elapsed_time, in.sequence, mid)

\* InfallibleSonyFlake::next_id, the refresh of start_time and the encoding
InfallibleSonyFlake_finish_no_reset(in, start, mid, clock) ==
    IF in.elapsed_time >= TimeLimit
    THEN [start_time |-> clock, elapsed_time |-> in.elapsed_time, sequence |-> 0,
          id |-> to_id(in.elapsed_time, 0, mid)]
    ELSE [start_time |-> start, elapsed_time |-> in.elapsed_time,
          sequence |-> in.sequence,
          id |-> to_id(in.elapsed_time, in.sequence, mid)]

InfallibleSonyFlake_finish_no_machine_id(in, start, mid, clock) ==
    IF in.elapsed_time >= TimeLimit
    THEN [start_time |-> clock, elapsed_time |-> 0, sequence |-> 0,
          id |-> to_id(0, 0, 0)]
    ELSE [start_time |-> start, elapsed_time |-> in.elapsed_time,
          sequence |-> in.sequence,
          id |-> to_id(in.elapsed_time, in.sequence, mid)]

InfallibleSonyFlake_finish(in, start, mid, clock) ==
    IF in.elapsed_time >= TimeLimit
    THEN [start_time |-> clock, elapsed_time |-> 0, sequence |-> 0,
          id |-> to_id(0, 0, mid)]
    ELSE [start_time |-> start, elapsed_time |-> in.elapsed_time,
          sequence |-> in.sequence,
          id |-> to_id(in.elapsed_time, in.sequence, mid)]

\* ------------------------------------------------------------------- Init
\* SonyFlake::new / InfallibleSonyFlake::new after a successful build: the
\* start time is not ahead of the clock, elapsed_time is 0 and sequence is
\* 1 << (BIT_LEN_SEQUENCE - 1)
InitFields(p) ==
    /\ policy = p
    /\ skew = 0
    /\ \E st \in 0 .. MaxStart, mid \in MachineIds :
          /\ start_time = [h \in Handles |-> st]
          /\ machine_id = [h \in Handles |-> mid]
          /\ now = st
    /\ live = {1}
    /\ inner = [elapsed_time |-> 0, sequence |-> 2 ^ (BIT_LEN_SEQUENCE - 1)]
    /\ lock = {}
    /\ pc = [h \in Handles |-> "idle"]
    /\ current = [h \in Handles |-> 0]
    /\ sleepLeft = [h \in Handles |-> 0]
    /\ ret = None
    /\ lastId = None
    /\ marked = None
    /\ rebased = FALSE
    /\ preset = None
    /\ slot = [calls |-> 0, fresh |-> FALSE]
    /\ build = BuildNone

InitAlloc(p) ==
    /\ InitFields(p)
    /\ twin = TwinNone
    /\ last = LastNone

Init ==
    /\ \E p \in {"SonyFlake", "InfallibleSonyFlake"} : InitAlloc(p)
    /\ codec = CodecIdle

\* after Settings::into_sonyflake
InitSonyFlake ==
    /\ InitAlloc("SonyFlake")
    /\ codec = CodecIdle

\* after Settings::into_infallible_sonyflake
InitInfallible ==
    /\ InitAlloc("InfallibleSonyFlake")
    /\ codec = CodecIdle

\* ---------------------------------------------------------------- actions
\* the clock crosses a time-unit boundary; sleeping threads get closer to waking
Tick ==
    /\ now < MaxNow
    /\ now' = now + 1
    /\ sleepLeft' = [h \in Handles |-> IF sleepLeft[h] > 0 THEN sleepLeft[h] - 1 ELSE 0]
    /\ slot' = [calls |-> 0, fresh |-> FALSE]
    /\ UNCHANGED <<skew, policy, live, start_time, machine_id, inner, lock, pc, current,
                   ret, lastId, marked, rebased, preset, codec,
                   build, twin, last>>

\* the wall clock is set back (Utc::now() is not monotonic)
ClockBack ==
    /\ now > 0
    /\ skew < MaxSkew
    /\ now' = now - 1
    /\ skew' = skew + 1
    /\ slot' = [calls |-> 0, fresh |-> FALSE]
    /\ UNCHANGED <<policy, live, start_time, machine_id, inner, lock, pc, current,
                   sleepLeft, ret, lastId, marked, rebased, preset, codec,
                   build, twin, last>>

\* impl Clone: the new handle copies start_time and machine_id and shares inner
Clone(h, h2) ==
    /\ h \in live
    /\ h2 \notin live
    /\ pc[h] = "idle"
    /\ live' = live \cup {h2}
    /\ start_time' = [start_time EXCEPT ![h2] = start_time[h]]
    /\ machine_id' = [machine_id EXCEPT ![h2] = machine_id[h]]
    /\ UNCHANGED <<now, skew, policy, inner, lock, pc, current, sleepLeft,
                   ret, lastId, marked, rebased, preset, codec, slot,
                   build, twin, last>>

\* a thread calls next_id on its handle and reaches self.inner.lock()
NextIdCall(h) ==
    /\ h \in live
    /\ pc[h] = "idle"
    /\ pc' = [pc EXCEPT ![h] = "lock"]
    /\ UNCHANGED <<now, skew, policy, live, start_time, machine_id, inner, lock, current,
                   sleepLeft, ret, lastId, marked, rebased, preset, codec, slot,
                   build, twin, last>>

\* self.inner.lock() returns the guard
NextIdLock_no_wait(h) ==
    /\ pc[h] = "lock"
    /\ lock' = lock \cup {h}
    /\ pc' = [pc EXCEPT ![h] = "update"]
    /\ UNCHANGED <<now, skew, policy, live, start_time, machine_id, inner, current,
                   sleepLeft, ret, lastId, marked, rebased, preset, codec, slot,
                   build, twin, last>>

NextIdLock(h) ==
    /\ pc[h] = "lock"
    /\ lock = {}
    /\ lock' = {h}
    /\ pc' = [pc EXCEPT ![h] = "update"]
    /\ UNCHANGED <<now, skew, policy, live, start_time, machine_id, inner, current,
                   sleepLeft, ret, lastId, marked, rebased, preset, codec, slot,
                   build, twin, last>>

\* the clock is read and elapsed_time / sequence are updated; on a sequence
\* wrap the thread goes to sleep for sleep_time(overtime): overtime units minus
\* the part of the current unit already gone, i.e. until `overtime` unit
\* boundaries have passed
NextIdUpdateStep(h) ==
    /\ pc[h] = "update"
    /\ LET cur == current_elapsed_time(start_time[h], now)
           upd == IF policy = "SonyFlake"
                  THEN SonyFlake_update(inner, cur)
                  ELSE InfallibleSonyFlake_update(inner, cur)
       IN  /\ upd.elapsed_time <= MaxElapsed
           /\ current' = [current EXCEPT ![h] = cur]
           /\ inner' = [elapsed_time |-> upd.elapsed_time, sequence |-> upd.sequence]
           /\ sleepLeft' = [sleepLeft EXCEPT ![h] = upd.overtime]
           /\ pc' = [pc EXCEPT ![h] = IF upd.overtime # 0 THEN "sleeping" ELSE "check"]
    /\ UNCHANGED <<now, skew, policy, live, start_time, machine_id, lock,
                   ret, lastId, marked, rebased, preset, codec,
                   build, last>>

NextIdUpdate(h) ==
    /\ NextIdUpdateStep(h)
    /\ UNCHANGED <<slot, twin>>

\* an observer counts the calls that read the clock in the same time unit and
\* notes whether the first of them found elapsed_time behind the clock
CountCall(h) ==
    slot' = [calls |-> slot.calls + 1,
             fresh |-> IF slot.calls = 0
                       THEN inner.elapsed_time
                                < current_elapsed_time(start_time[h], now)
                       ELSE slot.fresh]

\* the same step of next_id, counted
NextIdUpdateCounted(h) ==
    /\ NextIdUpdateStep(h)
    /\ CountCall(h)
    /\ UNCHANGED twin

\* std::thread::sleep returns
NextIdWake(h) ==
    /\ pc[h] = "sleeping"
    /\ sleepLeft[h] = 0
    /\ pc' = [pc EXCEPT ![h] = "check"]
    /\ UNCHANGED <<now, skew, policy, live, start_time, machine_id, inner, lock, current,
                   sleepLeft, ret, lastId, marked, rebased, preset, codec, slot,
                   build, twin, last>>

\* bookkeeping of a completed call
Record(val, rb) ==
    /\ ret' = val
    /\ lastId' = IF val = TimeOverflow THEN lastId ELSE val
    /\ rebased' = (rebased \/ rb)

\* SonyFlake::next_id: overflow check, to_id, the guard is dropped on return
SonyFlakeReturnStep_keep_guard(h) ==
    /\ policy = "SonyFlake"
    /\ pc[h] = "check"
    /\ Record(SonyFlake_finish(inner, machine_id[h]), FALSE)
    /\ lock' = lock
    /\ pc' = [pc EXCEPT ![h] = "idle"]
    /\ current' = [current EXCEPT ![h] = 0]
    /\ UNCHANGED <<now, skew, policy, live, start_time, machine_id, inner,
                   sleepLeft, marked, preset, codec, slot,
                   build, last>>

SonyFlakeReturnStep_refresh(h) ==
    /\ policy = "SonyFlake"
    /\ pc[h] = "check"
    /\ Record(SonyFlake_finish(inner, machine_id[h]), FALSE)
    /\ start_time' = IF inner.elapsed_time >= TimeLimit
                     THEN [start_time EXCEPT ![h] = now]
                     ELSE start_time
    /\ lock' = lock \ {h}
    /\ pc' = [pc EXCEPT ![h] = "idle"]
    /\ current' = [current EXCEPT ![h] = 0]
    /\ UNCHANGED <<now, skew, policy, live, machine_id, inner,
                   sleepLeft, marked, preset, codec, slot,
                   build, last>>

SonyFlakeReturnStep(h) ==
    /\ policy = "SonyFlake"
    /\ pc[h] = "check"
    /\ Record(SonyFlake_finish(inner, machine_id[h]), FALSE)
    /\ lock' = lock \ {h}
    /\ pc' = [pc EXCEPT ![h] = "idle"]
    /\ current' = [current EXCEPT ![h] = 0]
    /\ UNCHANGED <<now, skew, policy, live, start_time, machine_id, inner,
                   sleepLeft, marked, preset, codec, slot,
                   build, last>>

SonyFlakeReturn(h) ==
    /\ SonyFlakeReturnStep(h)
    /\ UNCHANGED twin

\* InfallibleSonyFlake::next_id: refresh of start_time on overflow, to_id,
\* the guard is dropped on return
InfallibleSonyFlakeReturnStep(h) ==
    /\ policy = "InfallibleSonyFlake"
    /\ pc[h] = "check"
    /\ LET fin == InfallibleSonyFlake_finish(inner, start_time[h], machine_id[h], now)
       IN  /\ start_time' = [start_time EXCEPT ![h] = fin.start_time]
           /\ inner' = [elapsed_time |-> fin.elapsed_time, sequence |-> fin.sequence]
           /\ Record(fin.id, inner.elapsed_time >= TimeLimit)
    /\ lock' = lock \ {h}
    /\ pc' = [pc EXCEPT ![h] = "idle"]
    /\ current' = [current EXCEPT ![h] = 0]
    /\ UNCHANGED <<now, skew, policy, live, machine_id, sleepLeft, marked, preset,
                   codec, slot,
                   build, twin>>

InfallibleSonyFlakeReturn(h) ==
    /\ InfallibleSonyFlakeReturnStep(h)
    /\ UNCHANGED last

\* the same return, while an observer notes which handle's call it was and
\* whether it refreshed the start time
InfallibleSonyFlakeReturnSeen(h) ==
    /\ InfallibleSonyFlakeReturnStep(h)
    /\ last' = [handle |-> h, rebased |-> inner.elapsed_time >= TimeLimit]

\* an observer remembers the id that was returned last, to compare the ids
\* returned later with it
Mark ==
    /\ marked = None
    /\ lastId # None
    /\ marked' = lastId
    /\ UNCHANGED <<now, skew, policy, live, start_time, machine_id, inner, lock, pc,
                   current, sleepLeft, ret, lastId, rebased, preset, codec, slot,
                   build, twin, last>>

\* the steps of next_id the two types have in common
NextIdSteps(h) ==
    \/ NextIdCall(h)
    \/ NextIdLock(h)
    \/ NextIdUpdate(h)
    \/ NextIdWake(h)

\* next_id is called while the mutex is free: self.inner.lock() returns the
\* guard at once (a thread that waits for the mutex changes nothing meanwhile)
NextIdEnter(h) ==
    /\ h \in live
    /\ pc[h] = "idle"
    /\ lock = {}
    /\ lock' = {h}
    /\ pc' = [pc EXCEPT ![h] = "update"]
    /\ UNCHANGED <<now, skew, policy, live, start_time, machine_id, inner, current,
                   sleepLeft, ret, lastId, marked, rebased, preset, codec, slot,
                   build, twin, last>>

\* the steps of next_id as the observer of the returned ids sees them
NextIdStepsIds(h) ==
    \/ NextIdEnter(h)
    \/ NextIdUpdate(h)
    \/ NextIdWake(h)

NextId ==
    \E h \in Handles :
        \/ NextIdSteps(h)
        \/ SonyFlakeReturn(h)
        \/ InfallibleSonyFlakeReturn(h)

CloneAny == \E h, h2 \in Handles : Clone(h, h2)

\* either type under a clock that only advances
Next ==
    \/ Tick
    \/ CloneAny
    \/ NextId

Spec == Init /\ [][Next]_vars

\* either type under a wall clock that may also be set back
NextSkew ==
    \/ Tick
    \/ ClockBack
    \/ CloneAny
    \/ NextId

SpecSkew == Init /\ [][NextSkew]_vars

\* either type under a wall clock that may also be set back, every call
\* finding the mutex free
NextSkewEnter ==
    \/ Tick
    \/ ClockBack
    \/ CloneAny
    \/ \E h \in Handles :
          \/ NextIdStepsIds(h)
          \/ SonyFlakeReturn(h)
          \/ InfallibleSonyFlakeReturn(h)

SpecSkewEnter == Init /\ [][NextSkewEnter]_vars

\* the fail-fast SonyFlake alone, the clock may be set back
NextSonyFlake ==
    \/ Tick
    \/ ClockBack
    \/ CloneAny
    \/ \E h \in Handles : NextIdSteps(h) \/ SonyFlakeReturn(h)

SpecSonyFlake == InitSonyFlake /\ [][NextSonyFlake]_vars

\* the fail-fast SonyFlake alone, with an observer of the returned ids
NextSonyFlakeIds ==
    \/ Tick
    \/ CloneAny
    \/ \E h \in Handles : NextIdStepsIds(h) \/ SonyFlakeReturn(h)
    \/ Mark

SpecSonyFlakeIds == InitSonyFlake /\ [][NextSonyFlakeIds]_vars

\* the InfallibleSonyFlake alone, with an observer of the returned ids
NextInfallibleIds ==
    \/ Tick
    \/ CloneAny
    \/ \E h \in Handles : NextIdStepsIds(h) \/ InfallibleSonyFlakeReturn(h)
    \/ Mark

SpecInfallibleIds == InitInfallible /\ [][NextInfallibleIds]_vars

\* the fail-fast SonyFlake alone, with an observer that counts the calls made
\* in one time unit
NextSonyFlakeCounted ==
    \/ Tick
    \/ CloneAny
    \/ \E h \in Handles :
          \/ NextIdEnter(h)
          \/ NextIdUpdateCounted(h)
          \/ NextIdWake(h)
          \/ SonyFlakeReturn(h)

SpecSonyFlakeCounted == InitSonyFlake /\ [][NextSonyFlakeCounted]_vars

\* -------------------------------------------------- the initial sequence
\* a SonyFlake as SonyFlake::new builds it, and next to it the same SonyFlake
\* with sequence 0 in its Inner; `first` will hold the clock reading of the
\* first call
InitTwin ==
    /\ InitFields("SonyFlake")
    /\ codec = CodecIdle
    /\ twin = [on |-> TRUE, inner |-> [elapsed_time |-> 0, sequence |-> 0],
               ret |-> None, first |-> None]
    /\ last = LastNone

\* the update of next_id, made on both with the same clock reading
TwinUpdate(h) ==
    LET cur == current_elapsed_time(start_time[h], now)
        upd == SonyFlake_update(twin.inner, cur)
    IN  twin' = [twin EXCEPT
                    !.inner = [elapsed_time |-> upd.elapsed_time,
                               sequence |-> upd.sequence],
                    !.first = IF twin.first = None THEN cur ELSE twin.first]

NextIdUpdateTwin(h) ==
    /\ NextIdUpdateStep(h)
    /\ TwinUpdate(h)
    /\ UNCHANGED slot

\* the overflow check and to_id, made on both
SonyFlakeReturnTwin(h) ==
    /\ SonyFlakeReturnStep(h)
    /\ twin' = [twin EXCEPT !.ret = SonyFlake_finish(twin.inner, machine_id[h])]

NextTwin ==
    \/ Tick
    \/ ClockBack
    \/ \E h \in Handles :
          \/ NextIdEnter(h)
          \/ NextIdUpdateTwin(h)
          \/ NextIdWake(h)
          \/ SonyFlakeReturnTwin(h)

SpecTwin == InitTwin /\ [][NextTwin]_vars

\* ------------------------------------------------------------ construction
\* what a Settings may hold after new / set_start_time / set_machine_id /
\* set_check_machine_id
StartTimes == {None} \cup BuildTimes
Providers ==
    {[kind |-> "none", value |-> None]}
        \cup {[kind |-> "ok", value |-> m] : m \in MachineIds}
        \cup {[kind |-> "err", value |-> e] : e \in ProviderErrors}
Checkers ==
    {[kind |-> "none", accepts |-> {}]}
        \cup {[kind |-> "set", accepts |-> a] : a \in SUBSET MachineIds}

\* a Settings has been filled in, nothing has been built from it yet
InitSettings ==
    /\ \E st \in StartTimes, p \in Providers, c \in Checkers,
          clock \in BuildTimes, ip \in {None} \cup Addresses :
          /\ build = [phase |-> "settings",
                      settings |-> [start_time |-> st, machine_id |-> p,
                                    check_machine_id |-> c],
                      clock |-> clock, private_ipv4 |-> ip,
                      result |-> Err("none", None), log |-> <<>>]
          /\ now = to_sonyflake_time(clock)
    /\ skew = 0
    /\ policy = "none"
    /\ live = {}
    /\ start_time = [h \in Handles |-> 0]
    /\ machine_id = [h \in Handles |-> 0]
    /\ inner = [elapsed_time |-> 0, sequence |-> 0]
    /\ lock = {}
    /\ pc = [h \in Handles |-> "idle"]
    /\ current = [h \in Handles |-> 0]
    /\ sleepLeft = [h \in Handles |-> 0]
    /\ ret = None
    /\ lastId = None
    /\ marked = None
    /\ rebased = FALSE
    /\ preset = None
    /\ slot = [calls |-> 0, fresh |-> FALSE]
    /\ codec = CodecIdle
    /\ twin = TwinNone
    /\ last = LastNone

\* the outcome of new is kept; on success handle 1 is the new allocator
Built(p, r) ==
    /\ build.phase = "settings"
    /\ build' = [build EXCEPT !.phase = "done", !.result = r.result, !.log = r.log]
    /\ IF r.result.ok
       THEN /\ policy' = p
            /\ live' = {1}
            /\ start_time' = [h \in Handles |-> r.result.value.start_time]
            /\ machine_id' = [h \in Handles |-> r.result.value.machine_id]
            /\ inner' = [elapsed_time |-> r.result.value.elapsed_time,
                         sequence |-> r.result.value.sequence]
       ELSE UNCHANGED <<policy, live, start_time, machine_id, inner, twin>>
    /\ UNCHANGED <<now, skew, lock, pc, current, sleepLeft, ret, lastId, marked,
                   rebased, preset, codec, slot, twin, last>>

\* Settings::into_sonyflake
into_sonyflake ==
    Built("SonyFlake",
          SonyFlake_new(build.settings, build.clock, build.private_ipv4))

\* Settings::into_infallible_sonyflake
into_infallible_sonyflake ==
    Built("InfallibleSonyFlake",
          InfallibleSonyFlake_new(build.settings, build.clock, build.private_ipv4))

NextBuild ==
    \/ into_sonyflake
    \/ into_infallible_sonyflake

SpecBuild == InitSettings /\ [][NextBuild]_vars

\* -------------------------------------------------------- a longer run
\* the latest clock of a run long enough for a refreshed start time to grow
\* 1 << BIT_LEN_TIME time units old in its turn
FarNow == MaxNow + TimeLimit

\* the clock crosses a time-unit boundary, in the longer run
TickFar ==
    /\ now < FarNow
    /\ now' = now + 1
    /\ sleepLeft' = [h \in Handles |-> IF sleepLeft[h] > 0 THEN sleepLeft[h] - 1 ELSE 0]
    /\ slot' = [calls |-> 0, fresh |-> FALSE]
    /\ UNCHANGED <<skew, policy, live, start_time, machine_id, inner, lock, pc, current,
                   ret, lastId, marked, rebased, preset, codec,
                   build, twin, last>>

\* either type in the longer run
NextFar ==
    \/ TickFar
    \/ CloneAny
    \/ \E h \in Handles :
          \/ NextIdStepsIds(h)
          \/ SonyFlakeReturn(h)
          \/ InfallibleSonyFlakeReturn(h)

SpecFar == Init /\ [][NextFar]_vars

\* ------------------------------------------------------------ a long pause
\* no thread is inside next_id and none calls it for 1 << BIT_LEN_TIME time
\* units: the next reading of Utc::now() is that much later
Pause ==
    /\ lock = {}
    /\ \A h \in Handles : pc[h] = "idle"
    /\ now + TimeLimit <= FarNow
    /\ now' = now + TimeLimit
    /\ slot' = [calls |-> 0, fresh |-> FALSE]
    /\ UNCHANGED <<skew, policy, live, start_time, machine_id, inner, lock, pc, current,
                   sleepLeft, ret, lastId, marked, rebased, preset, codec,
                   build, twin, last>>

\* an InfallibleSonyFlake of which no call has completed yet
InitPause ==
    /\ InitFields("InfallibleSonyFlake")
    /\ codec = CodecIdle
    /\ twin = TwinNone
    /\ last = [handle |-> 0, rebased |-> FALSE]

\* the InfallibleSonyFlake alone under a clock that advances and is at times
\* not looked at for long, with an observer of the handle that called last
NextPause ==
    \/ Tick
    \/ Pause
    \/ CloneAny
    \/ \E h \in Handles :
          \/ NextIdStepsIds(h)
          \/ InfallibleSonyFlakeReturnSeen(h)

SpecPause == InitPause /\ [][NextPause]_vars

\* ------------------------------------------------------------- progress
\* the latest clock at which a thread still starts a call: the calls under way
\* when the run of the clock ends can then finish within the clock that is left
LastCall == MaxNow - 2

\* a thread calls next_id while the clock has time units left
NextIdCallInTime(h) ==
    /\ now <= LastCall
    /\ NextIdCall(h)

\* the fail-fast SonyFlake with threads that contend for the mutex
NextLive ==
    \/ Tick
    \/ CloneAny
    \/ \E h \in Handles :
          \/ NextIdCallInTime(h)
          \/ NextIdLock(h)
          \/ NextIdUpdate(h)
          \/ NextIdWake(h)
          \/ SonyFlakeReturn(h)

\* the clock keeps advancing; a thread inside next_id keeps running
\* (std::thread::sleep returns once the time has passed); the mutex is fair: a
\* thread that finds it free again and again gets it
Fairness ==
    /\ WF_vars(Tick)
    /\ \A h \in Handles :
          /\ SF_vars(NextIdLock(h))
          /\ WF_vars(NextIdUpdate(h))
          /\ WF_vars(NextIdWake(h))
          /\ WF_vars(SonyFlakeReturn(h))

SpecLive == InitSonyFlake /\ [][NextLive]_vars /\ Fairness

\* ------------------------------------------------- the tests' direct write
\* tests::test_fallible / tests::test_infallible: right after the build, before
\* any call, the test writes elapsed_time through the lock
TestPresets == {TimeLimit - 2, TimeLimit - 1, TimeLimit}

SetElapsedTime(v) ==
    /\ preset = None
    /\ ret = None
    /\ lock = {}
    /\ \A h \in Handles : pc[h] = "idle"
    /\ inner' = [inner EXCEPT !.elapsed_time = v]
    /\ preset' = v
    /\ UNCHANGED <<now, skew, policy, live, start_time, machine_id, lock, pc, current,
                   sleepLeft, ret, lastId, marked, rebased, codec, slot,
                   build, twin, last>>

NextTest ==
    \/ Tick
    \/ CloneAny
    \/ \E h \in Handles :
          \/ NextIdStepsIds(h)
          \/ SonyFlakeReturn(h)
          \/ InfallibleSonyFlakeReturn(h)
    \/ \E v \in TestPresets : SetElapsedTime(v)

SpecTest == Init /\ [][NextTest]_vars

\* ---------------------------------------------------- the codec on its own
\* to_id takes an i64 and two u16: time units up to twice the limit are drawn,
\* so that inputs past the time field are among them
CodecTimes == 0 .. (2 * TimeLimit - 1)
CodecSeqs == 0 .. (2 ^ BIT_LEN_SEQUENCE - 1)

InitCodec ==
    /\ InitAlloc("SonyFlake")
    /\ \E t \in CodecTimes, sq \in CodecSeqs, n \in MachineIds :
          codec = [CodecIdle EXCEPT !.phase = "input", !.time_unit = t,
                                    !.sequence = sq, !.node_id = n]

CodecEncode ==
    /\ codec.phase = "input"
    /\ codec' = [codec EXCEPT !.phase = "encoded",
                              !.id = to_id(codec.time_unit, codec.sequence,
                                           codec.node_id)]
    /\ UNCHANGED <<now, skew, policy, live, start_time, machine_id, inner, lock, pc,
                   current, sleepLeft, ret, lastId, marked, rebased, preset, slot,
                   build, twin, last>>

CodecDecode ==
    /\ codec.phase = "encoded"
    /\ codec' = [codec EXCEPT !.phase = "decoded", !.parts = decompose(codec.id)]
    /\ UNCHANGED <<now, skew, policy, live, start_time, machine_id, inner, lock, pc,
                   current, sleepLeft, ret, lastId, marked, rebased, preset, slot,
                   build, twin, last>>

NextCodec ==
    \/ CodecEncode
    \/ CodecDecode

SpecCodec == InitCodec /\ [][NextCodec]_vars

\* ----------------------------------------------------------------- claims
\* handle h's call returns in this step
Returned(h) == pc[h] = "check" /\ pc'[h] = "idle"
IsId(v) == v # None /\ v # TimeOverflow
AllIdle == lock = {} /\ \A h \in Handles : pc[h] = "idle"
InitialSequence == 2 ^ (BIT_LEN_SEQUENCE - 1)
MaskSequence == 2 ^ BIT_LEN_SEQUENCE - 1

\* C1: for one allocator that has not refreshed its start time, every id a
\* call returns is strictly larger than the id returned before it, whichever
\* handle returned either and whatever the clock did in between.
C1_StrictlyIncreasing ==
    [][\A h \in Handles :
          (Returned(h) /\ IsId(ret') /\ ~rebased' /\ lastId # None)
              => ret' > lastId]_vars

\* two ids have been returned through two handles while the clock was set back
\* behind the recorded slot
C1_Witness ==
    /\ ~rebased
    /\ live = Handles
    /\ AllIdle
    /\ IsId(ret)
    /\ inner.sequence = 1
    /\ now - start_time[1] < inner.elapsed_time

\* C2: in the fail-fast SonyFlake no call returns an id that an earlier call
\* (of any handle, under any interleaving) has returned.
C2_FallibleDistinct ==
    [][\A h \in Handles :
          (Returned(h) /\ policy = "SonyFlake" /\ IsId(ret') /\ marked # None)
              => ret' # marked]_vars

\* an earlier id was remembered and a later call of a clone returned another id
C2_Witness ==
    /\ policy = "SonyFlake"
    /\ live = Handles
    /\ marked # None
    /\ IsId(ret)
    /\ ret # marked

\* C3: in the InfallibleSonyFlake no call returns an id that an earlier call
\* (of any handle, refreshes of the start time included) has returned.
C3_InfallibleDistinct ==
    [][\A h \in Handles :
          (Returned(h) /\ policy = "InfallibleSonyFlake" /\ IsId(ret')
              /\ marked # None)
              => ret' # marked]_vars

\* C4: the InfallibleSonyFlake has no error outcome: every completed call,
\* also one that found elapsed_time at or past the limit, returned an id whose
\* time field is below the limit.
C4_InfallibleNeverFails ==
    policy = "InfallibleSonyFlake" =>
        /\ ret # TimeOverflow
        /\ ret # None => /\ ret \in Ids
                         /\ decompose(ret).time < TimeLimit

\* a call that refreshed the start time has returned an id
C4_Witness ==
    /\ policy = "InfallibleSonyFlake"
    /\ rebased
    /\ IsId(ret)
    /\ decompose(ret).time = 0

\* C5: every returned id has top bit 0 and is
\* elapsed_time << (seq bits + machine bits) | sequence << machine bits | machine_id
\* of the state at the return, with elapsed_time and sequence inside their fields.
C5_IdLayout ==
    [][\A h \in Handles :
          (Returned(h) /\ IsId(ret')) =>
              /\ ret' < 2 ^ ID_BITS
              /\ inner'.elapsed_time \in 0 .. (TimeLimit - 1)
              /\ inner'.sequence \in 0 .. MaskSequence
              /\ ret' = inner'.elapsed_time * 2 ^ (BIT_LEN_SEQUENCE + BIT_LEN_MACHINE_ID)
                          + inner'.sequence * 2 ^ BIT_LEN_MACHINE_ID
                          + machine_id[h]]_vars

\* an id with a non-zero time and a non-zero sequence has just been returned
C5_Witness ==
    /\ AllIdle
    /\ IsId(ret)
    /\ inner.elapsed_time > 0
    /\ inner.sequence > 0
    /\ ret >= 2 ^ (BIT_LEN_SEQUENCE + BIT_LEN_MACHINE_ID)

\* C6: decompose(to_id(t, s, n)) gives back msb 0 and t, s, n for every t, s, n
\* that fit their fields.
C6_RoundTrip ==
    (/\ codec.phase = "decoded"
     /\ codec.time_unit < TimeLimit
     /\ codec.sequence < 2 ^ BIT_LEN_SEQUENCE
     /\ codec.node_id < 2 ^ BIT_LEN_MACHINE_ID)
        => /\ codec.parts.msb = 0
           /\ codec.parts.time = codec.time_unit
           /\ codec.parts.sequence = codec.sequence
           /\ codec.parts.machine_id = codec.node_id

\* the largest values of all three fields went through to_id and decompose
C6_Witness ==
    /\ codec.phase = "decoded"
    /\ codec.time_unit = TimeLimit - 1
    /\ codec.sequence = 2 ^ BIT_LEN_SEQUENCE - 1
    /\ codec.node_id = 2 ^ BIT_LEN_MACHINE_ID - 1

\* C7: a SonyFlake call returns TimeOverflow exactly when elapsed_time, after
\* the update of that call, is at or past the limit; otherwise it returns an id.
C7_OverflowExactly ==
    [][\A h \in Handles :
          (Returned(h) /\ policy = "SonyFlake") =>
              /\ (ret' = TimeOverflow) <=> (inner.elapsed_time >= TimeLimit)
              /\ ret' # TimeOverflow => ret' \in 0 .. (2 ^ ID_BITS - 1)]_vars

\* a SonyFlake call has returned TimeOverflow
C7_Witness ==
    /\ policy = "SonyFlake"
    /\ ret = TimeOverflow
    /\ AllIdle

\* C8: in the SonyFlake a call that completes after a call that returned
\* TimeOverflow returns TimeOverflow too (so, step by step, does every call
\* after the first failure), on every handle and also when the clock is set
\* back below the limit.
C8_OverflowPersists ==
    [][\A h \in Handles :
          (Returned(h) /\ policy = "SonyFlake" /\ ret = TimeOverflow)
              => ret' = TimeOverflow]_vars

\* after a failure the clock was set back below the limit, a clone called and
\* failed as well
C8_Witness ==
    /\ policy = "SonyFlake"
    /\ ret = TimeOverflow
    /\ live = Handles
    /\ AllIdle
    /\ inner.sequence > 0
    /\ now - start_time[1] < TimeLimit

\* C9 as stated: once a SonyFlake call has returned TimeOverflow, elapsed_time
\* and sequence keep the values they had after that call.
C9_StateFrozenAfterFailure ==
    [][(policy = "SonyFlake" /\ ret = TimeOverflow) => inner' = inner]_vars

\* C9 amended: once a SonyFlake call has returned TimeOverflow, later calls
\* still update sequence and elapsed_time before they fail, but elapsed_time
\* never decreases, stays at or past the limit, and the failing return itself
\* changes neither field.
C9_StateAfterFailure ==
    [][(policy = "SonyFlake" /\ ret = TimeOverflow) =>
          /\ inner.elapsed_time >= TimeLimit
          /\ inner'.elapsed_time >= inner.elapsed_time
          /\ \A h \in Handles : Returned(h) => inner' = inner]_vars

\* two more calls have failed after the first failing call (which leaves
\* sequence 0) and moved the sequence on
C9_Witness ==
    /\ policy = "SonyFlake"
    /\ ret = TimeOverflow
    /\ AllIdle
    /\ inner.elapsed_time >= TimeLimit
    /\ inner.sequence = 2

\* C10 as stated: with elapsed_time written to limit - 1 on a fresh SonyFlake
\* and the clock's elapsed units below that, the calls return TimeOverflow.
C10_PresetBelowLimitFails ==
    [][\A h \in Handles :
          (Returned(h) /\ policy = "SonyFlake" /\ preset = TimeLimit - 1
              /\ current[h] < TimeLimit - 1)
              => ret' = TimeOverflow]_vars

\* C10 amended: with elapsed_time written to the limit itself (1 << BIT_LEN_TIME,
\* as tests::test_fallible does) and the clock's elapsed units below that, the
\* next call returns TimeOverflow and so does the one after it.
C10_PresetAtLimitFails ==
    [][\A h \in Handles :
          (Returned(h) /\ policy = "SonyFlake" /\ preset = TimeLimit
              /\ current[h] < TimeLimit)
              => ret' = TimeOverflow]_vars

\* after the write of the limit two calls have completed, both with TimeOverflow
C10_Witness ==
    /\ policy = "SonyFlake"
    /\ preset = TimeLimit
    /\ ret = TimeOverflow
    /\ AllIdle
    /\ inner.sequence = BitAnd(InitialSequence + 2, MaskSequence)

\* C11 as stated: with elapsed_time written to limit - 1 on a fresh
\* InfallibleSonyFlake and the clock's elapsed units below that, the next call
\* refreshes the start time and returns an id whose time field is 0.
C11_PresetBelowLimitRebases ==
    [][\A h \in Handles :
          (Returned(h) /\ policy = "InfallibleSonyFlake" /\ preset = TimeLimit - 1
              /\ ret = None /\ current[h] < TimeLimit - 1)
              => /\ rebased'
                 /\ decompose(ret').time = 0]_vars

\* C11 amended: with elapsed_time written to the limit itself (1 << BIT_LEN_TIME)
\* and the clock's elapsed units below that, the next call refreshes the start
\* time, leaves elapsed_time 0 and sequence 0 and returns the id with time field
\* 0; the call that completes right after it, on a handle whose elapsed clock
\* units are still below the limit, returns a larger id.
C11_PresetAtLimitRebases ==
    [][\A h \in Handles :
          (Returned(h) /\ policy = "InfallibleSonyFlake" /\ preset = TimeLimit
              /\ current[h] < TimeLimit)
              => /\ ret = None =>
                       /\ rebased'
                       /\ inner' = [elapsed_time |-> 0, sequence |-> 0]
                       /\ start_time'[h] = now
                       /\ decompose(ret').time = 0
                 /\ ret = to_id(0, 0, machine_id[h]) => ret' > ret]_vars

\* after the write of the limit the first call has refreshed the start time and
\* the call after it has returned the next id of slot 0
C11_Witness ==
    /\ policy = "InfallibleSonyFlake"
    /\ preset = TimeLimit
    /\ rebased
    /\ AllIdle
    /\ inner = [elapsed_time |-> 0, sequence |-> 1]
    /\ ret = to_id(0, 1, machine_id[1])

\* handle h's call reads the clock and updates elapsed_time / sequence in this step
Updated(h) == pc[h] = "update" /\ pc'[h] # "update"
\* ids of one time unit: 1 << BIT_LEN_SEQUENCE
SlotSize == 2 ^ BIT_LEN_SEQUENCE

\* C12 as stated: of the calls made on one SonyFlake while the clock stays in
\* one time unit, call number 1 << BIT_LEN_SEQUENCE wraps the sequence to 0,
\* advances elapsed_time by exactly 1 and sleeps one time unit; the calls
\* before it neither wrap nor sleep.
C12_WrapAtLastOfSlot ==
    [][\A h \in Handles :
          Updated(h) =>
              /\ slot'.calls = SlotSize =>
                     /\ inner'.sequence = 0
                     /\ inner'.elapsed_time = inner.elapsed_time + 1
                     /\ pc'[h] = "sleeping"
                     /\ sleepLeft'[h] = 1
              /\ slot'.calls < SlotSize =>
                     /\ pc'[h] = "check"
                     /\ sleepLeft'[h] = 0]_vars

\* C12 amended: when the first call made in a time unit finds elapsed_time
\* behind the clock (it opens the slot with sequence 0), the first
\* 1 << BIT_LEN_SEQUENCE calls of that unit return the sequences 0, 1, ... of
\* the slot without sleeping and without advancing elapsed_time past the clock;
\* the call after them wraps the sequence to 0, advances elapsed_time by
\* exactly 1 and sleeps one time unit.
C12_WrapAfterFullSlot ==
    [][\A h \in Handles :
          (Updated(h) /\ slot'.fresh) =>
              /\ slot'.calls <= SlotSize + 1
              /\ slot'.calls <= SlotSize =>
                     /\ pc'[h] = "check"
                     /\ sleepLeft'[h] = 0
                     /\ inner'.elapsed_time = current'[h]
                     /\ inner'.sequence = slot'.calls - 1
              /\ slot'.calls = SlotSize + 1 =>
                     /\ inner'.sequence = 0
                     /\ inner'.elapsed_time = inner.elapsed_time + 1
                     /\ pc'[h] = "sleeping"
                     /\ sleepLeft'[h] = 1]_vars

\* a slot was opened and used up, and the call after its last id is asleep
C12_Witness ==
    /\ slot.fresh
    /\ slot.calls = SlotSize + 1
    /\ inner.sequence = 0
    /\ \E h \in Handles : pc[h] = "sleeping" /\ sleepLeft[h] = 1

\* C13: under a clock that never goes back, the time field of every id a
\* SonyFlake call returns is at most the clock's elapsed units (clock minus
\* start_time) at the moment of the return; a call that wrapped the sequence
\* returns only after the clock has reached the slot it advanced to.
C13_TimeNotAheadOfClock ==
    [][\A h \in Handles :
          (Returned(h) /\ policy = "SonyFlake" /\ IsId(ret'))
              => /\ decompose(ret').time <= current_elapsed_time(start_time[h], now)
                 /\ inner.elapsed_time <= current_elapsed_time(start_time[h], now)]_vars

\* no call has read the clock in the current time unit, yet the last id carries
\* this unit: its call wrapped in the unit before, slept and returned after
\* the clock got here
C13_Witness ==
    /\ policy = "SonyFlake"
    /\ AllIdle
    /\ slot.calls = 0
    /\ IsId(ret)
    /\ decompose(ret).sequence = 0
    /\ decompose(ret).time = current_elapsed_time(start_time[1], now)
    /\ now > 0

\* C14: under a clock that never goes back and from a state reached through
\* next_id calls alone, a call sleeps only when it wrapped the sequence, and
\* the overtime it then sleeps for is exactly 1 (elapsed_time is never more
\* than one time unit ahead of the caller's clock reading), in both types.
C14_OvertimeIsOne ==
    [][\A h \in Handles :
          Updated(h) =>
              /\ sleepLeft'[h] \in {0, 1}
              /\ pc'[h] = "sleeping" <=> sleepLeft'[h] = 1
              /\ sleepLeft'[h] = 1 =>
                     /\ inner.sequence = MaskSequence
                     /\ inner'.sequence = 0
                     /\ inner'.elapsed_time = inner.elapsed_time + 1
                     /\ inner'.elapsed_time = current'[h] + 1]_vars

\* the outcome of a build is there
BuildDone == build.phase = "done"
\* the build failed with an error of this kind
FailedWith(kind) == ~build.result.ok /\ build.result.error.kind = kind
\* a start time was set and is strictly after the clock of the build
StartAhead ==
    /\ build.settings.start_time # None
    /\ build.settings.start_time > build.clock
\* no allocator has come out of the build
NoAllocator == live = {} /\ policy = "none"
\* the calls the build made to the MachineIDChecker
CheckerCalls ==
    {i \in DOMAIN build.log : build.log[i][1] = "check_machine_id"}
\* the calls the build made to the MachineID
ProviderCalls == {i \in DOMAIN build.log : build.log[i][1] = "machine_id"}
\* the calls the build made to the default derivation
DefaultCalls ==
    {i \in DOMAIN build.log : build.log[i][1] = "lower_16_bit_private_ip"}

\* C15: into_sonyflake / into_infallible_sonyflake fail with
\* StartTimeAheadOfCurrentTime (carrying the start time, leaving no allocator)
\* exactly when a start time was set and is strictly after the current time;
\* an equal or earlier start time, or none, never gives that error.
C15_StartTimeAhead ==
    BuildDone =>
        /\ FailedWith("StartTimeAheadOfCurrentTime") <=> StartAhead
        /\ StartAhead =>
               /\ build.result.error.payload = build.settings.start_time
               /\ NoAllocator
               /\ build.log = <<>>
        /\ build.result.ok =>
               /\ live = {1}
               /\ start_time[1] =
                      IF build.settings.start_time = None
                      THEN to_sonyflake_time(default_start_time)
                      ELSE to_sonyflake_time(build.settings.start_time)

\* a start time one instant after the clock, inside the same time unit, was
\* refused
C15_Witness ==
    /\ BuildDone
    /\ build.settings.start_time = build.clock + 1
    /\ to_sonyflake_time(build.settings.start_time) = to_sonyflake_time(build.clock)
    /\ FailedWith("StartTimeAheadOfCurrentTime")
    /\ NoAllocator

\* the start-time step of the build has passed, so the machine id is resolved
StartPassed == ~StartAhead
\* the machine id the build resolves: the provider's, or else the low bits of
\* the private address; None when neither gives one
ResolvedId ==
    IF build.settings.machine_id.kind = "ok"
    THEN build.settings.machine_id.value
    ELSE IF build.settings.machine_id.kind = "none" /\ build.private_ipv4 # None
         THEN build.private_ipv4 % (2 ^ BIT_LEN_MACHINE_ID)
         ELSE None

\* C16: once a machine id is resolved (from the provider or from the default
\* derivation), a supplied checker is invoked once, with that id; the build
\* fails with InvalidMachineID(id) exactly when the checker returns false, and
\* otherwise, or without a checker, succeeds with that id.
C16_CheckerDecides ==
    (BuildDone /\ StartPassed /\ ResolvedId # None) =>
        IF build.settings.check_machine_id.kind # "none"
        THEN /\ Cardinality(CheckerCalls) = 1
             /\ build.log[Len(build.log)] = <<"check_machine_id", ResolvedId>>
             /\ FailedWith("InvalidMachineID")
                    <=> ResolvedId \notin build.settings.check_machine_id.accepts
             /\ FailedWith("InvalidMachineID") =>
                    /\ build.result.error.payload = ResolvedId
                    /\ NoAllocator
             /\ ResolvedId \in build.settings.check_machine_id.accepts =>
                    /\ build.result.ok
                    /\ build.result.value.machine_id = ResolvedId
                    /\ machine_id[1] = ResolvedId
        ELSE /\ CheckerCalls = {}
             /\ build.result.ok
             /\ build.result.value.machine_id = ResolvedId
             /\ machine_id[1] = ResolvedId

\* the id came from the default derivation and the checker refused it
C16_Witness ==
    /\ BuildDone
    /\ build.settings.machine_id.kind = "none"
    /\ build.settings.check_machine_id.kind = "set"
    /\ build.private_ipv4 # None
    /\ build.private_ipv4 >= 2 ^ BIT_LEN_MACHINE_ID
    /\ FailedWith("InvalidMachineID")
    /\ build.result.error.payload = build.private_ipv4 % (2 ^ BIT_LEN_MACHINE_ID)

\* C17: when the machine id is to be resolved and the supplied provider fails,
\* the build fails with MachineIdFailed carrying the provider's error after
\* exactly one call of the provider and no call of the checker or of the
\* default derivation; without a provider and without a private address the
\* build fails with NoPrivateIPv4Address.
C17_ProviderFailure ==
    (BuildDone /\ StartPassed) =>
        /\ build.settings.machine_id.kind = "err" =>
               /\ FailedWith("MachineIdFailed")
               /\ build.result.error.payload = build.settings.machine_id.value
               /\ Cardinality(ProviderCalls) = 1
               /\ CheckerCalls = {}
               /\ DefaultCalls = {}
               /\ NoAllocator
        /\ (build.settings.machine_id.kind = "none" /\ build.private_ipv4 = None) =>
               /\ FailedWith("NoPrivateIPv4Address")
               /\ ProviderCalls = {}
               /\ CheckerCalls = {}
               /\ NoAllocator

\* the provider failed although a checker was supplied and a private address
\* was there
C17_Witness ==
    /\ BuildDone
    /\ build.settings.machine_id.kind = "err"
    /\ build.settings.check_machine_id.kind = "set"
    /\ build.private_ipv4 # None
    /\ FailedWith("MachineIdFailed")
    /\ build.log = <<<<"machine_id">>>>

\* C18: no step changes the machine_id of a handle, every clone carries the
\* machine_id of the first handle (the one resolved by the build), and every id
\* returned by any handle of either type, also by a call that refreshed the
\* start time, has that machine id in its machine-id field.
C18_MachineIdFixed ==
    [][/\ \A h \in live : machine_id'[h] = machine_id[h]
       /\ \A h \in live' : machine_id'[h] = machine_id[1]
       /\ \A h \in Handles :
             (Returned(h) /\ IsId(ret'))
                 => decompose(ret').machine_id = machine_id[1]]_vars

\* an InfallibleSonyFlake with a non-zero machine id has refreshed a start
\* time, both handles exist, and the last id carries the machine id
C18_Witness ==
    /\ policy = "InfallibleSonyFlake"
    /\ rebased
    /\ live = Handles
    /\ AllIdle
    /\ machine_id[1] = 2 ^ BIT_LEN_MACHINE_ID - 1
    /\ IsId(ret)
    /\ ret = to_id(0, 0, machine_id[1])
    /\ decompose(ret).machine_id = machine_id[1]

\* C19 as stated: whatever the clock does, the SonyFlake built with the preset
\* sequence 1 << (BIT_LEN_SEQUENCE - 1) and the one built with sequence 0
\* return the same results, call after call.
C19_InitialSequenceUnobservable ==
    twin.on => twin.ret = ret

\* C19 amended: when the first call reads a clock at least one time unit past
\* the start time (current >= 1 > elapsed_time, so it opens a fresh slot and
\* resets the sequence), the two hold the same elapsed_time and sequence from
\* then on and return the same results, call after call.
C19_SameAfterFreshFirstCall ==
    (twin.on /\ twin.first >= 1) =>
        /\ twin.inner = inner
        /\ twin.ret = ret

\* the first call came after the first time unit, and several calls later the
\* two still agree on an id
C19_Witness ==
    /\ twin.on
    /\ twin.first >= 1
    /\ AllIdle
    /\ IsId(ret)
    /\ twin.ret = ret
    /\ inner.sequence = MaskSequence

\* C20: in both types, a call that reads current > elapsed_time sets
\* elapsed_time to current and sequence to 0; a call that reads
\* current <= elapsed_time sets sequence to (sequence + 1) mod
\* 1 << BIT_LEN_SEQUENCE and leaves elapsed_time alone unless that sequence is
\* 0, in which case elapsed_time grows by 1. A call that returns with
\* elapsed_time below the limit returns the id of the elapsed_time and
\* sequence it left, so after a fresh slot the id of (current, 0).
C20_UpdateStep ==
    [][\A h \in Handles :
          /\ Updated(h) =>
                IF inner.elapsed_time < current'[h]
                THEN inner' = [elapsed_time |-> current'[h], sequence |-> 0]
                ELSE /\ inner'.sequence = (inner.sequence + 1) % SlotSize
                     /\ inner'.elapsed_time =
                            IF inner'.sequence = 0
                            THEN inner.elapsed_time + 1
                            ELSE inner.elapsed_time
          /\ (Returned(h) /\ inner.elapsed_time < TimeLimit /\ inner.elapsed_time >= 0) =>
                /\ IsId(ret')
                /\ decompose(ret').time = inner.elapsed_time
                /\ decompose(ret').sequence = inner.sequence
                /\ inner' = inner]_vars

\* a call has just opened a slot two or more time units after the slot of the
\* id returned before it, and is about to return
C20_Witness ==
    \E h \in Handles :
        /\ pc[h] = "check"
        /\ lastId # None
        /\ inner = [elapsed_time |-> current[h], sequence |-> 0]
        /\ decompose(lastId).time + 2 <= inner.elapsed_time
        /\ inner.elapsed_time < TimeLimit

\* C21: below the limit the two types take the same step. From the same
\* elapsed_time, sequence, start_time, machine_id and clock reading the update
\* of SonyFlake::next_id and the update of InfallibleSonyFlake::next_id leave
\* the same elapsed_time and sequence and ask for the same sleep; and whenever
\* the SonyFlake returns Ok(id), the InfallibleSonyFlake returns the same id,
\* leaves elapsed_time and sequence as they are and keeps its start_time. The
\* two differ exactly when the updated elapsed_time is at or past the limit:
\* there the SonyFlake returns TimeOverflow and the InfallibleSonyFlake an id.
C21_SameStepBelowLimit ==
    [][\A h \in Handles :
          /\ Updated(h) =>
                LET cur == current_elapsed_time(start_time[h], now)
                IN  /\ SonyFlake_update(inner, cur) = InfallibleSonyFlake_update(inner, cur)
                    /\ inner' = [elapsed_time |-> SonyFlake_update(inner, cur).elapsed_time,
                                 sequence |-> SonyFlake_update(inner, cur).sequence]
                    /\ sleepLeft'[h] = InfallibleSonyFlake_update(inner, cur).overtime
          /\ Returned(h) =>
                LET ok == SonyFlake_finish(inner, machine_id[h])
                    fin == InfallibleSonyFlake_finish(inner, start_time[h],
                                                      machine_id[h], now)
                IN  /\ ret' = IF policy = "SonyFlake" THEN ok ELSE fin.id
                    /\ ok # TimeOverflow =>
                           /\ fin.id = ok
                           /\ fin.elapsed_time = inner.elapsed_time
                           /\ fin.sequence = inner.sequence
                           /\ fin.start_time = start_time[h]
                           /\ inner' = inner
                           /\ start_time' = start_time
                    /\ (ok = TimeOverflow) <=> (inner.elapsed_time >= TimeLimit)
                    /\ ok = TimeOverflow => IsId(fin.id)]_vars

\* an InfallibleSonyFlake that never refreshed its start time has returned,
\* after an earlier id, the first id of the current time unit: the id the
\* SonyFlake returns from that state
C21_Witness ==
    /\ policy = "InfallibleSonyFlake"
    /\ ~rebased
    /\ AllIdle
    /\ inner.sequence = 0
    /\ inner.elapsed_time = current_elapsed_time(start_time[1], now)
    /\ inner.elapsed_time > 0
    /\ lastId # None
    /\ ret = SonyFlake_finish(inner, machine_id[1])

\* C22: an InfallibleSonyFlake call whose updated elapsed_time is at or past
\* the limit sets the start_time of the calling handle (and of no other) to the
\* clock at that moment, sets elapsed_time and sequence to 0 and returns the
\* id of time 0 and sequence 0, which as a number is the machine id; a call
\* whose updated elapsed_time is below the limit leaves every start_time as it
\* is, and so does every step that is not a return.
C22_RebaseStep ==
    [][/\ \A h \in Handles :
             (Returned(h) /\ policy = "InfallibleSonyFlake") =>
                 IF inner.elapsed_time >= TimeLimit
                 THEN /\ start_time' = [start_time EXCEPT ![h] = now]
                      /\ inner' = [elapsed_time |-> 0, sequence |-> 0]
                      /\ decompose(ret').time = 0
                      /\ decompose(ret').sequence = 0
                      /\ ret' = machine_id[h]
                 ELSE start_time' = start_time
       /\ \A h \in live :
             start_time'[h] # start_time[h] =>
                 /\ Returned(h)
                 /\ policy = "InfallibleSonyFlake"
                 /\ inner.elapsed_time >= TimeLimit]_vars

\* a clone has refreshed its start time to a clock past the limit and got the
\* machine id back as its id, while the first handle kept its start time
C22_Witness ==
    /\ policy = "InfallibleSonyFlake"
    /\ live = Handles
    /\ AllIdle
    /\ start_time[2] = now
    /\ start_time[1] < start_time[2]
    /\ now >= TimeLimit
    /\ inner = [elapsed_time |-> 0, sequence |-> 0]
    /\ machine_id[2] > 0
    /\ ret = machine_id[2]

C24_OneEpoch ==
    [][policy = "InfallibleSonyFlake" =>
          /\ \A g, h \in live' : start_time'[g] = start_time'[h]
          /\ \A h \in Handles :
                (/\ Returned(h)
                 /\ \E g \in live :
                        current_elapsed_time(start_time[g], now) < TimeLimit - 1)
                    => /\ inner.elapsed_time < TimeLimit
                       /\ ret' # ret]_vars

\* C25: in the SonyFlake no step of next_id, successful or failing, changes
\* the start_time or the machine_id of a handle: from the clock read to the
\* return a call writes elapsed_time and sequence only. A clone copies both
\* fields, so all handles hold the start_time and machine_id of the first one
\* for ever.
C25_FrameOfNextId ==
    [][policy = "SonyFlake" =>
          /\ \A h \in live : /\ start_time'[h] = start_time[h]
                             /\ machine_id'[h] = machine_id[h]
          /\ \A h \in live' : /\ start_time'[h] = start_time[1]
                              /\ machine_id'[h] = machine_id[1]
          /\ \A h \in Handles :
                (Updated(h) \/ Returned(h) \/ pc'[h] # pc[h]) =>
                    /\ start_time' = start_time
                    /\ machine_id' = machine_id
                    /\ live' = live
                    /\ policy' = policy
          /\ \A h \in Handles : Returned(h) => inner' = inner]_vars

\* the clock was set back, ids and then a TimeOverflow were returned, and the
\* clone still has the start time and machine id of the first handle
C25_Witness ==
    /\ policy = "SonyFlake"
    /\ live = Handles
    /\ AllIdle
    /\ lastId # None
    /\ ret = TimeOverflow
    /\ machine_id[2] = machine_id[1]
    /\ machine_id[1] > 0
    /\ start_time[2] = start_time[1]
    /\ skew > 0

\* the thread of handle h is between its clock read and its return: it is
\* about to read the clock and update, asleep after a wrap, or at the overflow
\* check and the encoding
InCriticalSection(h) == pc[h] \in {"update", "sleeping", "check"}

\* C26: at most one next_id call of an allocator is between its clock read and
\* its return; a thread is there exactly while it holds the guard of the
\* mutex, asleep after a wrap included, and a thread whose call has returned
\* (with an id, with TimeOverflow or after a refresh of the start time) or that
\* still waits for the mutex holds no guard.
C26_MutualExclusion ==
    /\ Cardinality({h \in Handles : InCriticalSection(h)}) <= 1
    /\ Cardinality(lock) <= 1
    /\ \A h \in Handles : InCriticalSection(h) <=> h \in lock
    /\ \A h \in Handles : pc[h] \in {"idle", "lock"} => h \notin lock
    /\ \A h \in Handles : sleepLeft[h] > 0 => h \in lock

\* one thread sleeps after a wrap with the guard in its hands while the other
\* waits for the mutex
C26_Witness ==
    \E g, h \in Handles :
        /\ pc[g] = "sleeping"
        /\ sleepLeft[g] > 0
        /\ lock = {g}
        /\ pc[h] = "lock"
        /\ ret # None

\* C27: under a clock that keeps advancing and a fair mutex, every next_id
\* call that a thread has started on any handle of a SonyFlake returns, with
\* an id or with TimeOverflow: also a call that waits for the mutex behind a
\* thread asleep after a wrap, and a call that sleeps itself. The threads
\* start no call after LastCall, so this says: from some moment on no thread
\* is inside next_id any more, neither waiting for the mutex nor holding it.
C27_EveryCallReturns ==
    <>[](\A h \in Handles : pc[h] = "idle")

\* a thread is at the overflow check with the guard in its hands, after its
\* sleep, while another thread has been waiting for the mutex
C27_Witness ==
    \E g, h \in Handles :
        /\ policy = "SonyFlake"
        /\ pc[g] = "check"
        /\ inner.sequence = 0
        /\ inner.elapsed_time > current[g]
        /\ inner.elapsed_time = current_elapsed_time(start_time[g], now)
        /\ pc[h] = "lock"

\* the pair (elapsed_time, sequence) of a is before that of b
LexLess(a, b) ==
    \/ a.elapsed_time < b.elapsed_time
    \/ /\ a.elapsed_time = b.elapsed_time
       /\ a.sequence < b.sequence

\* C28: in the SonyFlake, whatever the clock does (it may be set back),
\* elapsed_time never decreases, every next_id call moves the pair
\* (elapsed_time, sequence) strictly up in lexicographic order, and every id
\* returned is strictly larger than the id returned before it.
C28_ClockRegression ==
    [][policy = "SonyFlake" =>
          /\ inner'.elapsed_time >= inner.elapsed_time
          /\ inner' # inner => LexLess(inner, inner')
          /\ \A h \in Handles :
                /\ Updated(h) => LexLess(inner, inner')
                /\ (Returned(h) /\ IsId(ret') /\ lastId # None) => ret' > lastId]_vars

\* the clock was set back behind the recorded slot; a call made then has wrapped
\* the sequence and moved elapsed_time further ahead of the clock
C28_Witness ==
    \E h \in Handles :
        /\ policy = "SonyFlake"
        /\ skew > 0
        /\ pc[h] = "sleeping"
        /\ sleepLeft[h] = 2
        /\ inner.sequence = 0
        /\ inner.elapsed_time = current[h] + 2
        /\ lastId # None

\* C29: under a clock that never goes back and from a state reached through
\* next_id calls alone, a SonyFlake call returns TimeOverflow, and an
\* InfallibleSonyFlake call refreshes its start time, only when by the return
\* of the call the clock is at least 1 << BIT_LEN_TIME time units past the
\* start time of the calling handle; a call that returns while the clock is
\* less than (1 << BIT_LEN_TIME) - 1 units past that start time returns an id
\* and refreshes nothing, however many calls were made before it.
C29_NoSpuriousOverflow ==
    [][\A h \in Handles :
          Returned(h) =>
              LET past == current_elapsed_time(start_time[h], now)
              IN  /\ (ret' = TimeOverflow \/ start_time' # start_time
                          \/ inner.elapsed_time >= TimeLimit)
                         => past >= TimeLimit
                  /\ past < TimeLimit - 1 =>
                         /\ IsId(ret')
                         /\ start_time' = start_time
                         /\ inner' = inner]_vars

\* two handles of an InfallibleSonyFlake refreshed their start times at
\* different moments; a call of one of them read the clock well below the limit,
\* wrapped the sequence into the limit, slept, and is about to refresh the start
\* time now that the clock is 1 << BIT_LEN_TIME units past its start time
C29_Witness ==
    \E h \in Handles :
        /\ policy = "InfallibleSonyFlake"
        /\ rebased
        /\ pc[h] = "check"
        /\ sleepLeft[h] = 0
        /\ current[h] < TimeLimit - 1
        /\ inner = [elapsed_time |-> TimeLimit, sequence |-> 0]
        /\ current_elapsed_time(start_time[h], now) >= TimeLimit

\* C30: new checks the start time first and returns at the first failure: when
\* the start time is after the current time the build fails with
\* StartTimeAheadOfCurrentTime without a call to the MachineID, to the
\* MachineIDChecker or to the default derivation, whatever these would have
\* answered; the machine id is resolved only after the start-time check has
\* passed, and the checker is called only after an id was resolved.
C30_ChecksInOrder ==
    BuildDone =>
        /\ StartAhead =>
               /\ FailedWith("StartTimeAheadOfCurrentTime")
               /\ ProviderCalls = {}
               /\ CheckerCalls = {}
               /\ DefaultCalls = {}
               /\ NoAllocator
        /\ build.log # <<>> => StartPassed
        /\ CheckerCalls # {} =>
               /\ ResolvedId # None
               /\ CheckerCalls = {Len(build.log)}
               /\ Len(build.log) = 2
        /\ ~build.result.ok =>
               build.result.error.kind \in
                   {"StartTimeAheadOfCurrentTime", "MachineIdFailed",
                    "NoPrivateIPv4Address", "InvalidMachineID"}

\* the start time was ahead, the provider would have failed and the checker
\* accepts no id: the build failed on the start time and called neither
C30_Witness ==
    /\ BuildDone
    /\ StartAhead
    /\ build.settings.machine_id.kind = "err"
    /\ build.settings.check_machine_id = [kind |-> "set", accepts |-> {}]
    /\ FailedWith("StartTimeAheadOfCurrentTime")
    /\ build.log = <<>>
    /\ policy = "none"

\* ------------------------------------------------ decompose on any u64
\* decompose is public and takes any u64: every value of the word is drawn,
\* the ones with the top bit set among them
InitDecompose ==
    /\ InitAlloc("SonyFlake")
    /\ \E id \in Ids : codec = [CodecIdle EXCEPT !.phase = "foreign", !.id = id]

Decompose ==
    /\ codec.phase = "foreign"
    /\ codec' = [codec EXCEPT !.phase = "decomposed", !.parts = decompose(codec.id)]
    /\ UNCHANGED <<now, skew, policy, live, start_time, machine_id, inner, lock, pc,
                   current, sleepLeft, ret, lastId, marked, rebased, preset, slot,
                   build, twin, last>>

SpecDecompose == InitDecompose /\ [][Decompose]_vars

\* msb << 63 | time << 24 | sequence << 16 | machine_id, in u64
Recomposed(parts) ==
    BitOr(BitOr(BitOr(Shl(parts.msb, ID_BITS),
                      Shl(parts.time, BIT_LEN_SEQUENCE + BIT_LEN_MACHINE_ID)),
                Shl(parts.sequence, BIT_LEN_MACHINE_ID)),
          parts.machine_id)

\* C31 as stated: for every u64, decompose returns msb in {0, 1}, time below
\* 1 << BIT_LEN_TIME, sequence and machine_id within their fields, and the
\* parts put back together give the id.
C31_FieldsInDomain ==
    codec.phase = "decomposed"
        => /\ codec.parts.msb \in {0, 1}
           /\ codec.parts.time < TimeLimit
           /\ codec.parts.sequence < 2 ^ BIT_LEN_SEQUENCE
           /\ codec.parts.machine_id < 2 ^ BIT_LEN_MACHINE_ID
           /\ Recomposed(codec.parts) = codec.id

\* C31: for every u64, decompose returns msb in {0, 1}, sequence and machine_id
\* within their fields, and the parts put back together give the id; time is
\* every bit above the sequence, the top bit included, so it is below
\* 1 << BIT_LEN_TIME exactly when msb is 0 and below 1 << (BIT_LEN_TIME + 1)
\* always.
C31_FieldsInDomainMsb ==
    codec.phase = "decomposed"
        => /\ codec.parts.msb \in {0, 1}
           /\ codec.parts.time < 2 * TimeLimit
           /\ (codec.parts.time < TimeLimit) <=> (codec.parts.msb = 0)
           /\ codec.parts.sequence < 2 ^ BIT_LEN_SEQUENCE
           /\ codec.parts.machine_id < 2 ^ BIT_LEN_MACHINE_ID
           /\ Recomposed(codec.parts) = codec.id

\* the all-ones word, top bit set, went through decompose
C31_Witness ==
    /\ codec.phase = "decomposed"
    /\ codec.id = Word - 1
    /\ codec.parts.msb = 1

\* ------------------------------------------- the draft crate: InfallibleFlake
\* The draft crate keeps machine_id, start_time, elapsed_time and sequence in
\* one Inner inside one InfallibleFlake behind Arc<Mutex<..>>; next_id takes
\* &mut self, so one call runs at a time. The fields of handle 1 and `inner`
\* hold that one object.

\* FlakeError::FlakeTimeOverflow
FlakeTimeOverflow == None - 1

\* to_id of the draft crate: the limit is checked inside
Flake_to_id(elapsed_time, seq, machine) ==
    IF elapsed_time >= TimeLimit
    THEN FlakeTimeOverflow
    ELSE to_id(elapsed_time, seq, machine)

\* InfallibleFlake::next_id, the slot/sequence update
InfallibleFlake_update(in, cur) ==
    IF in.elapsed_time < cur
    THEN [elapsed_time |-> cur, sequence |-> 0, overtime |-> 0]
    ELSE LET seq == BitAnd(in.sequence + 1, 2 ^ BIT_LEN_SEQUENCE - 1)
         IN  IF seq = 0
             THEN [elapsed_time |-> in.elapsed_time + 1, sequence |-> 0,
                   overtime |-> in.elapsed_time + 1 - cur]
             ELSE [elapsed_time |-> in.elapsed_time, sequence |-> seq,
                   overtime |-> 0]

\* after new_flake: elapsed_time 0, sequence all ones, start_time not after the clock
InitFlake ==
    /\ policy = "InfallibleFlake"
    /\ skew = 0
    /\ \E st \in 0 .. MaxStart, mid \in MachineIds :
          /\ start_time = [h \in Handles |-> st]
          /\ machine_id = [h \in Handles |-> mid]
          /\ now = st
    /\ live = {1}
    /\ inner = [elapsed_time |-> 0, sequence |-> 2 ^ BIT_LEN_SEQUENCE - 1]
    /\ lock = {}
    /\ pc = [h \in Handles |-> "idle"]
    /\ current = [h \in Handles |-> 0]
    /\ sleepLeft = [h \in Handles |-> 0]
    /\ ret = None
    /\ lastId = None
    /\ marked = None
    /\ rebased = FALSE
    /\ preset = None
    /\ slot = [calls |-> 0, fresh |-> FALSE]
    /\ build = BuildNone
    /\ twin = TwinNone
    /\ last = LastNone
    /\ codec = CodecIdle

\* a caller locks the Mutex and calls next_id
FlakeNextIdCall ==
    /\ pc[1] = "idle"
    /\ lock' = {1}
    /\ pc' = [pc EXCEPT ![1] = "update"]
    /\ UNCHANGED <<now, skew, policy, live, start_time, machine_id, inner, current,
                   sleepLeft, ret, lastId, marked, rebased, preset, codec, slot,
                   build, twin, last>>

\* the clock is read and elapsed_time / sequence are updated; on a sequence
\* wrap the thread sleeps for sleep_time(overtime)
FlakeNextIdUpdate ==
    /\ policy = "InfallibleFlake"
    /\ pc[1] = "update"
    /\ LET cur == current_elapsed_time(start_time[1], now)
           upd == InfallibleFlake_update(inner, cur)
       IN  /\ current' = [current EXCEPT ![1] = cur]
           /\ inner' = [elapsed_time |-> upd.elapsed_time, sequence |-> upd.sequence]
           /\ sleepLeft' = [sleepLeft EXCEPT ![1] = upd.overtime]
           /\ pc' = [pc EXCEPT ![1] = IF upd.overtime # 0 THEN "sleeping" ELSE "check"]
    /\ UNCHANGED <<now, skew, policy, live, start_time, machine_id, lock,
                   ret, lastId, marked, rebased, preset, codec, slot,
                   build, twin, last>>

\* to_id gave Ok(v): next_id returns v and the caller drops the guard
FlakeNextIdReturn ==
    /\ policy = "InfallibleFlake"
    /\ pc[1] = "check"
    /\ Flake_to_id(inner.elapsed_time, inner.sequence, machine_id[1]) # FlakeTimeOverflow
    /\ Record(Flake_to_id(inner.elapsed_time, inner.sequence, machine_id[1]), FALSE)
    /\ lock' = {}
    /\ pc' = [pc EXCEPT ![1] = "idle"]
    /\ current' = [current EXCEPT ![1] = 0]
    /\ UNCHANGED <<now, skew, policy, live, start_time, machine_id, inner,
                   sleepLeft, marked, preset, codec, slot,
                   build, twin, last>>

\* to_id gave Err: start_time is set to the clock and next_id calls itself
FlakeNextIdRetry ==
    /\ policy = "InfallibleFlake"
    /\ pc[1] = "check"
    /\ Flake_to_id(inner.elapsed_time, inner.sequence, machine_id[1]) = FlakeTimeOverflow
    /\ start_time' = [start_time EXCEPT ![1] = now]
    /\ rebased' = TRUE
    /\ pc' = [pc EXCEPT ![1] = "update"]
    /\ UNCHANGED <<now, skew, policy, live, machine_id, inner, lock, current,
                   sleepLeft, ret, lastId, marked, preset, codec, slot,
                   build, twin, last>>

NextFlake ==
    \/ TickFar
    \/ FlakeNextIdCall
    \/ FlakeNextIdUpdate
    \/ NextIdWake(1)
    \/ FlakeNextIdReturn
    \/ FlakeNextIdRetry

\* the clock keeps running and a thread inside next_id keeps being scheduled
FairnessFlake ==
    /\ WF_vars(TickFar)
    /\ WF_vars(FlakeNextIdUpdate)
    /\ WF_vars(NextIdWake(1))
    /\ WF_vars(FlakeNextIdReturn)
    /\ WF_vars(FlakeNextIdRetry)

SpecFlake == InitFlake /\ [][NextFlake]_vars /\ FairnessFlake

\* C32: whenever to_id reported FlakeTimeOverflow and next_id refreshed
\* start_time and called itself, that call of next_id returns an id.
C32_RetryReturns ==
    rebased ~> (pc[1] = "idle")

\* what the draft does instead: no step of next_id lowers elapsed_time,
ElapsedTimeNeverLowered ==
    [][inner'.elapsed_time >= inner.elapsed_time]_vars

\* so once it is at the limit every retry finds it at the limit again, however
\* long the clock runs
RetryKeepsOverflow ==
    rebased => /\ inner.elapsed_time >= TimeLimit
               /\ pc[1] # "idle"

\* ------------------------------------------------------------- sleep_time
\* Duration::from_millis(overtime as u64 * 10) - Duration::from_nanos(nanos %
\* FLAKE_TIME_UNIT), counted in the clock's finest steps; `instant` is the
\* clock in those steps. A negative value is the Duration subtraction panicking.
sleep_time(overtime, instant) ==
    AsU64(overtime) * FLAKE_TIME_UNIT - AsU64(instant % FLAKE_TIME_UNIT)

\* the clock instants that lie in the time unit the clock is in
InstantsOfNow == (now * FLAKE_TIME_UNIT) .. (now * FLAKE_TIME_UNIT + FLAKE_TIME_UNIT - 1)

\* handle h's call takes the wrap path in this step: elapsed_time is not behind
\* the clock and the incremented sequence is 0
Wrapped(h) ==
    /\ Updated(h)
    /\ inner.elapsed_time >= current_elapsed_time(start_time[h], now)
    /\ BitAnd(inner.sequence + 1, MaskSequence) = 0

\* C33: whenever next_id takes the wrap path, overtime is at least 1, and
\* sleep_time(overtime) does not underflow at whatever instant of the time
\* unit it reads the clock.
C33_OvertimeAtLeastOne ==
    [][\A h \in Handles :
          Wrapped(h)
              => /\ sleepLeft'[h] = inner'.elapsed_time - current'[h]
                 /\ sleepLeft'[h] >= 1
                 /\ \A i \in InstantsOfNow : sleep_time(sleepLeft'[h], i) >= 0]_vars

\* a call wrapped with elapsed_time equal to the clock: overtime is exactly 1,
\* the smallest sleep, and the thread is asleep
C33_Witness ==
    \E h \in Handles :
        /\ pc[h] = "sleeping"
        /\ inner.sequence = 0
        /\ inner.elapsed_time = current[h] + 1
        /\ sleepLeft[h] = 1

====
